---- MODULE Spec2Model ----
(***************************************************************************)
(* Model of pkg/internal/cluster/create/create.go: the Cluster operation  *)
(* that normalizes options, validates the cluster name and configuration, *)
(* provisions nodes, runs the bootstrap actions and exports the           *)
(* kubeconfig, deleting the cluster on provisioning or action failure     *)
(* unless Retain is set.                                                  *)
(*                                                                         *)
(* Strings that the code inspects character by character (the cluster     *)
(* name) are sequences of code points.  Calls into other packages         *)
(* (encoding.Load, Config.Validate, Provision, Execute, delete.Cluster,   *)
(* kubeconfig.Export) return nil or an error chosen by the environment.   *)
(***************************************************************************)
EXTENDS Integers, Sequences, FiniteSets, TLC

\* ------------------------------------------------------------------ bounds
MaxNodes == 2
MaxNameLen == 2

\* --------------------------------------------------------- program constants
clusterNameMax == 50
NumSalutations == 4

\* ------------------------------------------------------------------- errors
\* An error value is identified by the call that produced it; `at` is the
\* 1-based position of the action for errors returned by Execute.
Nil == [kind |-> "nil", at |-> 0]
Err(k, i) == [kind |-> k, at |-> i]
ErrLoad == Err("Load", 0)
ErrInvalidName == Err("InvalidName", 0)
ErrValidate == Err("Validate", 0)
ErrProvision == Err("Provision", 0)
ErrDelete == Err("Delete", 0)
ErrExport == Err("Export", 0)
ErrExecute(i) == Err("Execute", i)

\* ------------------------------------------------------------ cluster names
Rep(c, n) == [i \in 1..n |-> c]
\* "kind", "a/b", "my cluster!"
NameKind == <<107, 105, 110, 100>>
NameSlash == <<97, 47, 98>>
NameMyCluster == <<109, 121, 32, 99, 108, 117, 115, 116, 101, 114, 33>>
Names ==
  {<<>>, NameSlash, NameMyCluster, NameKind,
   Rep(97, clusterNameMax), Rep(97, clusterNameMax + 1)}

\* code points around every edge of the character class, plus newline,
\* space and a non-ASCII letter
Alphabet ==
  {10, 32, 33, 44, 45, 46, 47, 48, 57, 58, 64, 65, 90, 91, 95, 96, 97, 122,
   123, 233}
RECURSIVE StringsUpTo(_)
StringsUpTo(n) ==
  IF n = 0 THEN {<<>>}
  ELSE LET S == StringsUpTo(n - 1)
       IN S \cup {Append(s, c) : s \in {t \in S : Len(t) = n - 1}, c \in Alphabet}

\* validNameRE = `^[a-zA-Z0-9_.-]+$`: the ranges and literals of the class
\* the class with the range A-z in place of a-zA-Z
validNameClassAz ==
  {<<65, 122>>, <<48, 57>>, <<95, 95>>, <<46, 46>>, <<45, 45>>}
validNameClass ==
  {<<97, 122>>, <<65, 90>>, <<48, 57>>, <<95, 95>>, <<46, 46>>, <<45, 45>>}
InClass(c) == \E r \in validNameClass : r[1] <= c /\ c <= r[2]
\* the expression without its anchors: some substring is in the class
validNameREUnanchored(s) == \E i \in 1..Len(s) : InClass(s[i])
\* MatchString: ^ anchors at 1, the class repeats n >= 1 times, $ anchors at
\* the end of the text (no multi-line flag)
validNameRE(s) ==
  \E n \in 1..Len(s) : (\A i \in 1..n : InClass(s[i])) /\ n = Len(s)

\* --------------------------------------------------------- configuration
NoConfig == [isNil |-> TRUE, Nodes |-> <<>>, DisableDefaultCNI |-> FALSE]
Config(ns, cni) == [isNil |-> FALSE, Nodes |-> ns, DisableDefaultCNI |-> cni]
Node(img) == [Image |-> img]
DefaultImage == "kindest/node"
Images == {"", "img"}
RECURSIVE NodeLists(_)
NodeLists(n) ==
  IF n = 0 THEN {<<>>}
  ELSE LET S == NodeLists(n - 1)
       IN S \cup {Append(s, Node(i)) : s \in {t \in S : Len(t) = n - 1}, i \in Images}
Configs == {Config(ns, b) : ns \in NodeLists(MaxNodes), b \in BOOLEAN}

\* config.SetDefaultsCluster: fills unset fields, in place
SetDefaultsCluster(cfg) ==
  LET ns == IF Len(cfg.Nodes) = 0 THEN <<Node("")>> ELSE cfg.Nodes
  IN [cfg EXCEPT !.Nodes =
        [i \in 1..Len(ns) |->
           IF ns[i].Image = "" THEN Node(DefaultImage) ELSE ns[i]]]

\* encoding.Load(""): the default cluster configuration
LoadDefault == SetDefaultsCluster(Config(<<>>, FALSE))

\* fixupOptions, lines 200-208: NodeImage overrides the image of every node
overrideImages(o) ==
  IF o.NodeImage # ""
  THEN [o EXCEPT !.Config.Nodes =
          [i \in 1..Len(o.Config.Nodes) |->
             [o.Config.Nodes[i] EXCEPT !.Image = o.NodeImage]]]
  ELSE o

\* fixupOptions, lines 210-212: default the config fields
defaultConfig(o) == [o EXCEPT !.Config = SetDefaultsCluster(o.Config)]

\* fixupOptions that goes on with the nil config when Load fails
fixupOptionsIgnoreLoadErr(o, loadErr) ==
  LET o1 == IF o.Config.isNil /\ loadErr = Nil
            THEN [o EXCEPT !.Config = LoadDefault] ELSE o
  IN [opts |-> defaultConfig(overrideImages(o1)), err |-> Nil]

\* fixupOptions that returns before defaulting the config fields
fixupOptionsNoDefaults(o, loadErr) ==
  IF o.Config.isNil /\ loadErr # Nil
  THEN [opts |-> o, err |-> loadErr]
  ELSE LET o1 == IF o.Config.isNil THEN [o EXCEPT !.Config = LoadDefault] ELSE o
       IN [opts |-> overrideImages(o1), err |-> Nil]

\* fixupOptions: loadErr is the outcome of encoding.Load when it is called
fixupOptions(o, loadErr) ==
  IF o.Config.isNil /\ loadErr # Nil
  THEN [opts |-> o, err |-> loadErr]
  ELSE LET o1 == IF o.Config.isNil THEN [o EXCEPT !.Config = LoadDefault] ELSE o
       IN [opts |-> defaultConfig(overrideImages(o1)), err |-> Nil]

\* --------------------------------------------------- the action pipeline
\* the pipeline with installcni appended after installstorage
actionsToRunCNILate(o) ==
  LET base == <<<<"loadbalancer">>, <<"config">>>>
      init == base \o <<<<"kubeadminit">>, <<"installstorage">>>>
      cni == IF ~o.Config.DisableDefaultCNI
             THEN Append(init, <<"installcni">>)
             ELSE init
  IN IF ~o.StopBeforeSettingUpKubernetes
     THEN cni \o <<<<"kubeadmjoin">>, <<"waitforready", o.WaitForReady>>>>
     ELSE base

\* actionsToRun as Cluster builds it: an action is its package name, and
\* waitforready carries opts.WaitForReady
actionsToRun(o) ==
  LET base == <<<<"loadbalancer">>, <<"config">>>>
      init == Append(base, <<"kubeadminit">>)
      cni == IF ~o.Config.DisableDefaultCNI
             THEN Append(init, <<"installcni">>)
             ELSE init
  IN IF ~o.StopBeforeSettingUpKubernetes
     THEN cni \o <<<<"installstorage">>, <<"kubeadmjoin">>,
                   <<"waitforready", o.WaitForReady>>>>
     ELSE base

\* the deletion after a failed Provision, Retain not consulted
DeleteAfterProvisionAlways(o, delErr) ==
  <<[fn |-> "Delete", arg |-> o.KubeconfigPath, res |-> delErr, ctx |-> 0]>>

\* the deletion Cluster runs after a failed Provision: none when Retain
DeleteAfterProvision(o, delErr) ==
  IF ~o.Retain THEN <<[fn |-> "Delete", arg |-> o.KubeconfigPath, res |-> delErr, ctx |-> 0]>>
  ELSE <<>>

\* the deletion after a failed action, with the Retain test inverted
DeleteAfterActionInverted(o, delErr) ==
  IF o.Retain THEN <<[fn |-> "Delete", arg |-> o.KubeconfigPath, res |-> delErr, ctx |-> 0]>>
  ELSE <<>>

\* the deletion after a failed action, Retain not consulted
DeleteAfterActionAlways(o, delErr) ==
  <<[fn |-> "Delete", arg |-> o.KubeconfigPath, res |-> delErr, ctx |-> 0]>>

\* the deletion Cluster runs after a failed action: none when Retain
DeleteAfterAction(o, delErr) ==
  IF ~o.Retain THEN <<[fn |-> "Delete", arg |-> o.KubeconfigPath, res |-> delErr, ctx |-> 0]>>
  ELSE <<>>

\* delete.Cluster: best-effort removal of the nodes
DeleteCluster(inf, delErr) == IF delErr = Nil THEN "none" ELSE inf

\* -------------------------------------------------------------------- state
VARIABLES
  pc,        \* position in Cluster
  name,      \* ctx.Name()
  opts,      \* *ClusterOptions (Config is the cluster the pointer refers to)
  opts0,     \* the options as the caller passed them
  actions,   \* actionsToRun
  done,      \* number of actions that returned nil
  calls,     \* the calls made into other packages, in order, with results
  logs,      \* what was written to the logger, in order
  infra,     \* the node containers: "none", "partial" or "provisioned"
  actionsContext, \* the action contexts created so far (0: none yet)
  ret        \* the error Cluster returned (meaningful when pc = "done")

vars == <<pc, name, opts, opts0, actions, done, calls, logs, infra, actionsContext, ret>>

\* a call into another package; ctx is the action context passed (0: none)
Call(f, a, r) == [fn |-> f, arg |-> a, res |-> r, ctx |-> 0]
ExecuteCall(a, r, c) == [fn |-> "Execute", arg |-> a, res |-> r, ctx |-> c]
Log(k, n) == [kind |-> k, n |-> n]

Options ==
  [Config : {NoConfig} \cup Configs,
   NodeImage : {"", "custom:tag"},
   Retain : BOOLEAN,
   WaitForReady : {0, 30},
   KubeconfigPath : {"", "kc"},
   StopBeforeSettingUpKubernetes : BOOLEAN,
   DisplayUsage : BOOLEAN,
   DisplaySalutation : BOOLEAN]

InitWith(n, o) ==
  /\ pc = "fixupOptions"
  /\ name = n
  /\ opts = o
  /\ opts0 = o
  /\ actions = <<>>
  /\ done = 0
  /\ calls = <<>>
  /\ logs = <<>>
  /\ infra = "none"
  /\ actionsContext = 0
  /\ ret = Nil

Init == \E n \in Names : \E o \in Options : InitWith(n, o)

Return(e) == pc' = "done" /\ ret' = e

\* Cluster, lines 75-78, with fixupOptions
FixupOptions ==
  /\ pc = "fixupOptions"
  /\ \E loadErr \in {Nil, ErrLoad} :
       LET r == fixupOptions(opts, loadErr)
       IN /\ opts.Config.isNil \/ loadErr = Nil
          /\ opts' = r.opts
          /\ calls' = IF opts.Config.isNil
                      THEN Append(calls, Call("Load", "", loadErr))
                      ELSE calls
          /\ IF r.err # Nil
             THEN Return(r.err)
             ELSE pc' = "validateName" /\ ret' = ret
  /\ UNCHANGED <<name, opts0, actions, done, logs, infra, actionsContext>>

\* the length test with >= in place of >
tooLongInclusive(n) == Len(n) >= clusterNameMax

\* Cluster, line 88: the name is longer than clusterNameMax
tooLong(n) == Len(n) > clusterNameMax

\* Cluster, lines 80-90
ValidateName ==
  /\ pc = "validateName"
  /\ IF ~validNameRE(name)
     THEN Return(ErrInvalidName) /\ logs' = logs
     ELSE /\ pc' = "validateConfig"
          /\ ret' = ret
          /\ logs' = IF tooLong(name)
                     THEN Append(logs, Log("Warnf", 0))
                     ELSE logs
  /\ UNCHANGED <<name, opts, opts0, actions, done, calls, infra, actionsContext>>

\* Cluster, lines 92-95
ValidateConfig ==
  /\ pc = "validateConfig"
  /\ \E e \in {Nil, ErrValidate} :
       /\ calls' = Append(calls, Call("Validate", "", e))
       /\ IF e # Nil THEN Return(e) ELSE pc' = "provision" /\ ret' = ret
  /\ UNCHANGED <<name, opts, opts0, actions, done, logs, infra, actionsContext>>

\* Cluster, lines 97-108
Provision ==
  /\ pc = "provision"
  /\ \E e \in {Nil, ErrProvision} :
       IF e # Nil
       THEN \E left \in {"none", "partial"} : \E delErr \in {Nil, ErrDelete} :
              LET del == DeleteAfterProvision(opts, delErr)
              IN /\ calls' = Append(calls, Call("Provision", "", e)) \o del
                 /\ logs' = Append(logs, Log("Errorf", 0))
                 /\ infra' = IF del # <<>> THEN DeleteCluster(left, delErr) ELSE left
                 /\ opts.Retain => delErr = Nil
                 /\ Return(e)
       ELSE /\ calls' = Append(calls, Call("Provision", "", e))
            /\ infra' = "provisioned"
            /\ pc' = "assemble"
            /\ UNCHANGED <<logs, ret>>
  /\ UNCHANGED <<name, opts, opts0, actions, done, actionsContext>>

\* Assemble that first defaults a zero WaitForReady in the options
AssembleDefaultingWait ==
  /\ pc = "assemble"
  /\ opts' = IF opts.WaitForReady = 0 THEN [opts EXCEPT !.WaitForReady = 30] ELSE opts
  /\ actions' = actionsToRun(opts')
  /\ actionsContext' = actionsContext + 1
  /\ done' = 0
  /\ pc' = "run"
  /\ UNCHANGED <<name, opts0, calls, logs, infra, ret>>

\* Cluster, lines 110-134
Assemble ==
  /\ pc = "assemble"
  /\ actions' = actionsToRun(opts)
  /\ actionsContext' = actionsContext + 1
  /\ done' = 0
  /\ pc' = "run"
  /\ UNCHANGED <<name, opts, opts0, calls, logs, infra, ret>>

\* Execute that runs a failed action again instead of returning
ExecuteRetrying ==
  /\ pc = "run"
  /\ done < Len(actions)
  /\ \E e \in {Nil, ErrExecute(done + 1)} :
       /\ calls' = Append(calls, ExecuteCall(actions[done + 1][1], e, actionsContext))
       /\ done' = IF e = Nil THEN done + 1 ELSE done
  /\ UNCHANGED <<pc, ret, infra, name, opts, opts0, actions, logs, actionsContext>>

\* the loop taken from the last action to the first
nextActionReversed(as, d) == as[Len(as) - d]

\* Cluster, line 135: range takes the actions in order
nextAction(as, d) == as[d + 1]

\* Cluster, lines 135-142: one iteration of the loop
Execute ==
  /\ pc = "run"
  /\ done < Len(actions)
  /\ \E e \in {Nil, ErrExecute(done + 1)} :
       LET c == ExecuteCall(nextAction(actions, done)[1], e, actionsContext)
       IN IF e # Nil
          THEN \E delErr \in {Nil, ErrDelete} :
                 LET del == DeleteAfterAction(opts, delErr)
                 IN /\ calls' = Append(calls, c) \o del
                    /\ infra' = IF del # <<>> THEN DeleteCluster(infra, delErr) ELSE infra
                    /\ opts.Retain => delErr = Nil
                    /\ Return(e)
                    /\ done' = done
          ELSE /\ calls' = Append(calls, c)
               /\ done' = done + 1
               /\ UNCHANGED <<pc, ret, infra>>
  /\ UNCHANGED <<name, opts, opts0, actions, logs, actionsContext>>

\* the test of line 145 that also skips when no usage is to be displayed
SkipRestUnlessUsage(o) == o.StopBeforeSettingUpKubernetes \/ ~o.DisplayUsage

\* the test of line 145 that never skips
SkipRestNever(o) == FALSE

\* Cluster, lines 144-147: skip the rest if not setting up kubernetes
SkipRest(o) == o.StopBeforeSettingUpKubernetes

\* Export with the failure handling of the action loop: delete unless Retain
ExportCompensating ==
  /\ pc = "run"
  /\ done = Len(actions)
  /\ IF SkipRest(opts)
     THEN Return(Nil) /\ calls' = calls /\ infra' = infra
     ELSE \E e \in {Nil, ErrExport} :
            IF e # Nil
            THEN \E delErr \in {Nil, ErrDelete} :
                   LET del == DeleteAfterAction(opts, delErr)
                   IN /\ calls' = Append(calls, Call("Export", opts.KubeconfigPath, e)) \o del
                      /\ infra' = IF del # <<>> THEN DeleteCluster(infra, delErr) ELSE infra
                      /\ Return(e)
            ELSE /\ calls' = Append(calls, Call("Export", opts.KubeconfigPath, e))
                 /\ pc' = "report" /\ ret' = ret /\ infra' = infra
  /\ UNCHANGED <<name, opts, opts0, actions, done, logs, actionsContext>>

\* Cluster, lines 144-151: the loop is over
Export ==
  /\ pc = "run"
  /\ done = Len(actions)
  /\ IF SkipRest(opts)
     THEN Return(Nil) /\ calls' = calls
     ELSE \E e \in {Nil, ErrExport} :
            /\ calls' = Append(calls, Call("Export", opts.KubeconfigPath, e))
            /\ IF e # Nil THEN Return(e) ELSE pc' = "report" /\ ret' = ret
  /\ UNCHANGED <<name, opts, opts0, actions, done, logs, infra, actionsContext>>

\* logUsage: the sample command names the kubeconfig when the path is explicit
logUsage(path) == <<Log("Usage", IF path # "" THEN 1 ELSE 0)>>

\* logSalutation: one of the salutations
logSalutation(i) == <<Log("Info", 0), Log("Salutation", i)>>

\* Cluster, lines 153-163
Report ==
  /\ pc = "report"
  /\ \E i \in 1..NumSalutations :
       /\ logs' = logs
            \o (IF opts.DisplayUsage THEN logUsage(opts.KubeconfigPath) ELSE <<>>)
            \o (IF opts.DisplaySalutation THEN logSalutation(i) ELSE <<>>)
       /\ opts.DisplaySalutation \/ i = 1
  /\ Return(Nil)
  /\ UNCHANGED <<name, opts, opts0, actions, done, calls, infra, actionsContext>>

Next ==
  \/ FixupOptions
  \/ ValidateName
  \/ ValidateConfig
  \/ Provision
  \/ Assemble
  \/ Execute
  \/ Export
  \/ Report

Spec == Init /\ [][Next]_vars

\* Cluster is one sequential call: as long as the calls it makes return, it
\* takes its next step
\* (the wait and the kubeconfig path, which no step tests, are left at zero)
LiveOptions == {o \in Options : o.WaitForReady = 0 /\ o.KubeconfigPath = ""}
InitLive == \E n \in Names : \E o \in LiveOptions : InitWith(n, o)
SpecLive == InitLive /\ [][Next]_vars /\ WF_vars(Next)

\* the name-validation cases: every short string over Alphabet, with options
\* that take a valid name through the whole of Cluster
NameOptions ==
  {o \in Options :
     /\ o.Config = NoConfig /\ o.NodeImage = ""
     /\ o.WaitForReady = 0 /\ o.KubeconfigPath = ""
     /\ ~o.StopBeforeSettingUpKubernetes
     /\ o.DisplayUsage /\ o.DisplaySalutation}
InitName ==
  \E n \in StringsUpTo(MaxNameLen) \cup Names : \E o \in NameOptions : InitWith(n, o)
SpecName == InitName /\ [][Next]_vars

\* ------------------------------------------------------------- observations
Returned == pc = "done"
CallsTo(f) == SelectSeq(calls, LAMBDA c : c.fn = f)
Count(f) == Len(CallsTo(f))
Failed(f) == \E i \in 1..Len(calls) : calls[i].fn = f /\ calls[i].res # Nil
\* the error the (only) failing call to f returned
ErrorOf(f) ==
  LET i == CHOOSE i \in 1..Len(calls) : calls[i].fn = f /\ calls[i].res # Nil
  IN calls[i].res
Logged(k) == \E i \in 1..Len(logs) : logs[i].kind = k
\* every action of the assembled pipeline has returned nil
AllActionsSucceeded ==
  pc \in {"run", "report", "done"} /\ actions # <<>> /\ done = Len(actions)

\* C1: when Provision returns an error, delete.Cluster is called exactly once
\* if Retain is false and never if it is true, no action is executed, the
\* kubeconfig is not exported, and Cluster has returned the error Provision
\* returned, whatever the deletion returned.
C1_ProvisionFailure ==
  Failed("Provision") =>
    /\ Returned
    /\ ret = ErrorOf("Provision")
    /\ Count("Delete") = (IF opts0.Retain THEN 0 ELSE 1)
    /\ Count("Execute") = 0
    /\ Count("Export") = 0

C1_Witness ==
  /\ Returned
  /\ Failed("Provision")
  /\ ~opts0.Retain
  /\ Failed("Delete")
  /\ ret = ErrProvision

\* C2: when the k-th action fails after actions 1..k-1 succeeded, exactly the
\* first k actions of the pipeline were executed, in order, delete.Cluster is
\* called once if Retain is false and never if it is true, the kubeconfig is
\* not exported, and Cluster has returned the k-th action's error.
C2_ActionFailure ==
  Failed("Execute") =>
    LET ex == CallsTo("Execute")
        k == Len(ex)
    IN /\ Returned
       /\ k \in 1..Len(actions)
       /\ \A j \in 1..k : ex[j].arg = actions[j][1]
       /\ \A j \in 1..(k - 1) : ex[j].res = Nil
       /\ ex[k].res = ErrExecute(k)
       /\ ret = ex[k].res
       /\ Count("Delete") = (IF opts0.Retain THEN 0 ELSE 1)
       /\ Count("Export") = 0

C2_Witness ==
  /\ Returned
  /\ Len(actions) = 7
  /\ ret = ErrExecute(4)
  /\ Count("Execute") = 4
  /\ ~opts0.Retain
  /\ Failed("Delete")

\* C3: when every action succeeded and the export fails, Cluster has returned
\* the export's error, delete.Cluster was never called, whatever Retain is,
\* and the provisioned nodes are still there.
C3_ExportFailure ==
  Failed("Export") =>
    /\ Returned
    /\ AllActionsSucceeded
    /\ ret = ErrorOf("Export")
    /\ Count("Delete") = 0
    /\ infra = "provisioned"

C3_Witness ==
  /\ Returned
  /\ ret = ErrExport
  /\ ~opts0.Retain
  /\ Count("Execute") = Len(actions)
  /\ infra = "provisioned"

\* C4: over the whole call delete.Cluster is called at most once, never when
\* Retain is set, and never when every action of the pipeline succeeded.
C4_DeleteAtMostOnce ==
  /\ Count("Delete") <= 1
  /\ opts0.Retain => Count("Delete") = 0
  /\ AllActionsSucceeded => Count("Delete") = 0

C4_Witness ==
  /\ Returned
  /\ Count("Delete") = 1
  /\ Count("Execute") = 2

\* the pipelines the claims name
PipelineStop == <<<<"loadbalancer">>, <<"config">>>>
PipelineNoCNI(w) ==
  <<<<"loadbalancer">>, <<"config">>, <<"kubeadminit">>, <<"installstorage">>,
    <<"kubeadmjoin">>, <<"waitforready", w>>>>
PipelineFull(w) ==
  <<<<"loadbalancer">>, <<"config">>, <<"kubeadminit">>, <<"installcni">>,
    <<"installstorage">>, <<"kubeadmjoin">>, <<"waitforready", w>>>>
Assembled == pc \in {"run", "report"} \/ (Returned /\ Count("Provision") = 1 /\ ~Failed("Provision"))

\* C5 as stated: the pipeline is decided by StopBeforeSettingUpKubernetes and
\* DisableDefaultCNI alone, of length 2 when stop is set, the six-name list
\* without installcni "of length 5" when stop is unset and the CNI disabled,
\* and the list with installcni after kubeadminit when both are unset.
C5_Original ==
  Assembled =>
    /\ opts.StopBeforeSettingUpKubernetes =>
         actions = PipelineStop /\ Len(actions) = 2
    /\ ~opts.StopBeforeSettingUpKubernetes /\ opts.Config.DisableDefaultCNI =>
         actions = PipelineNoCNI(opts.WaitForReady) /\ Len(actions) = 5
    /\ ~opts.StopBeforeSettingUpKubernetes /\ ~opts.Config.DisableDefaultCNI =>
         actions = PipelineFull(opts.WaitForReady)

\* C5 (amended): the same three pipelines, of lengths 2, 6 and 7: the
\* pipeline without installcni has six actions and the full one seven, and
\* no other length or order occurs.
C5_Pipeline ==
  Assembled =>
    /\ opts.StopBeforeSettingUpKubernetes =>
         actions = PipelineStop /\ Len(actions) = 2
    /\ ~opts.StopBeforeSettingUpKubernetes /\ opts.Config.DisableDefaultCNI =>
         actions = PipelineNoCNI(opts.WaitForReady) /\ Len(actions) = 6
    /\ ~opts.StopBeforeSettingUpKubernetes /\ ~opts.Config.DisableDefaultCNI =>
         actions = PipelineFull(opts.WaitForReady) /\ Len(actions) = 7
         /\ actions[3][1] = "kubeadminit" /\ actions[4][1] = "installcni"
    /\ Len(actions) \in {2, 6, 7}

C5_Witness ==
  /\ pc = "run"
  /\ ~opts.StopBeforeSettingUpKubernetes
  /\ opts.Config.DisableDefaultCNI
  /\ opts.WaitForReady = 30
  /\ Len(actions) = 6

\* C6: once every action has succeeded and Cluster has returned, the
\* kubeconfig export was attempted exactly once if
\* StopBeforeSettingUpKubernetes is unset; if it is set, Cluster returned nil
\* right after the last action, with no export and no usage or salutation
\* output, whatever DisplayUsage and DisplaySalutation are.
C6_AfterActions ==
  AllActionsSucceeded /\ Returned =>
    IF opts0.StopBeforeSettingUpKubernetes
    THEN /\ ret = Nil
         /\ Count("Export") = 0
         /\ calls[Len(calls)].fn = "Execute"
         /\ ~Logged("Usage") /\ ~Logged("Salutation") /\ ~Logged("Info")
    ELSE Count("Export") = 1

C6_Witness ==
  /\ Returned
  /\ AllActionsSucceeded
  /\ opts0.StopBeforeSettingUpKubernetes
  /\ opts0.DisplayUsage /\ opts0.DisplaySalutation
  /\ ret = Nil

\* the names the format allows, character by character
IsLetter(c) == (65 <= c /\ c <= 90) \/ (97 <= c /\ c <= 122)
IsDigit(c) == 48 <= c /\ c <= 57
IsNameChar(c) == IsLetter(c) \/ IsDigit(c) \/ c = 95 \/ c = 46 \/ c = 45
IsValidName(s) == s # <<>> /\ \A i \in 1..Len(s) : IsNameChar(s[i])

\* C7 as stated: a call with a name outside the format returns the
\* invalid-name error, and Provision, the actions, delete.Cluster and the
\* export are never called.
C7_Original ==
  ~IsValidName(name) =>
    /\ Returned => ret = ErrInvalidName
    /\ Count("Provision") = 0 /\ Count("Execute") = 0
    /\ Count("Delete") = 0 /\ Count("Export") = 0

\* C7 (amended): a call with a name outside the format returns the
\* invalid-name error unless loading the default configuration failed first,
\* in which case it returns the load error; in both cases Provision, the
\* actions, delete.Cluster and the export are never called, whatever Retain
\* is.
C7_InvalidName ==
  ~IsValidName(name) =>
    /\ Returned => ret = (IF Failed("Load") THEN ErrorOf("Load") ELSE ErrInvalidName)
    /\ pc \in {"fixupOptions", "validateName", "done"}
    /\ Count("Validate") = 0
    /\ Count("Provision") = 0 /\ Count("Execute") = 0
    /\ Count("Delete") = 0 /\ Count("Export") = 0
    /\ infra = "none"

C7_Witness ==
  /\ Returned
  /\ name = NameSlash
  /\ ret = ErrInvalidName
  /\ ~opts0.Retain
  /\ calls = <<>>

\* the options are normalized: a configuration is present, it was loaded
\* exactly when the caller passed none, NodeImage is on every node that was
\* there before the defaults, and no node is left without an image
Normalized ==
  /\ ~opts.Config.isNil
  /\ Count("Load") = (IF opts0.Config.isNil THEN 1 ELSE 0)
  /\ Len(opts.Config.Nodes) >= 1
  /\ \A i \in 1..Len(opts.Config.Nodes) : opts.Config.Nodes[i].Image # ""
  /\ opts.NodeImage # "" /\ (opts0.Config.isNil \/ opts0.Config.Nodes # <<>>) =>
       \A i \in 1..Len(opts.Config.Nodes) : opts.Config.Nodes[i].Image = opts.NodeImage

\* C8 as stated: the name is checked before the options are normalized, so a
\* call with a name outside the format never loads a configuration, never
\* returns the load error and leaves the caller's options as they were.
C8_Original ==
  ~IsValidName(name) =>
    /\ Count("Load") = 0
    /\ ret # ErrLoad
    /\ opts = opts0

\* C8 (amended): the options are normalized before the name is checked: when
\* the name check is reached, and whenever the invalid-name error is
\* returned, the default configuration has been loaded if none was passed,
\* the image override and the defaults have been applied; a call with a name
\* outside the format returns the load error when the load fails and the
\* invalid-name error otherwise, and its options are the normalized ones.
C8_NormalizeFirst ==
  /\ pc = "validateName" \/ ret = ErrInvalidName => Normalized
  /\ pc = "fixupOptions" => opts = opts0 /\ ret = Nil
  /\ ~IsValidName(name) /\ Returned =>
       /\ ret \in {ErrLoad, ErrInvalidName}
       /\ ret = ErrLoad <=> Failed("Load")
       /\ ret = ErrLoad => opts = opts0

C8_Witness ==
  /\ Returned
  /\ ~IsValidName(name)
  /\ ret = ErrInvalidName
  /\ ~opts0.Config.isNil
  /\ opts # opts0
  /\ opts.NodeImage # ""

\* C9: when loading the default configuration fails, or validating the
\* normalized configuration fails, Cluster has returned that error and
\* Provision, the actions and delete.Cluster are never called, whatever
\* Retain is.
C9_ConfigError ==
  Failed("Load") \/ Failed("Validate") =>
    /\ Returned
    /\ ret = (IF Failed("Load") THEN ErrorOf("Load") ELSE ErrorOf("Validate"))
    /\ Count("Provision") = 0 /\ Count("Execute") = 0
    /\ Count("Delete") = 0 /\ Count("Export") = 0
    /\ infra = "none"

C9_Witness ==
  /\ Returned
  /\ ret = ErrValidate
  /\ Count("Load") = 1
  /\ ~opts0.Retain
  /\ Count("Provision") = 0

\* C10: the name check rejects, with the invalid-name error, exactly the
\* strings that are empty or hold a character other than an ASCII letter, a
\* digit, '_', '.' or '-'; every other name passes on to the validation of
\* the configuration.
C10_NameFormat ==
  pc \notin {"fixupOptions", "validateName"} /\ ret # ErrLoad =>
    /\ ret = ErrInvalidName <=> ~IsValidName(name)
    /\ IsValidName(name) => pc = "validateConfig" \/ Count("Validate") = 1
    /\ name \in {<<>>, NameSlash, NameMyCluster} => ret = ErrInvalidName

C10_Witness ==
  /\ Returned
  /\ name = NameMyCluster
  /\ ret = ErrInvalidName

\* ------------------------------------------- the calls the inputs determine
\* What Cluster calls when nothing fails, from the caller's Config presence,
\* StopBeforeSettingUpKubernetes, DisableDefaultCNI, WaitForReady and
\* KubeconfigPath alone: neither the display flags, nor the log, nor the
\* length of the name take part.
Step(f, a) == [fn |-> f, arg |-> a]
ScriptActions ==
  IF opts0.StopBeforeSettingUpKubernetes THEN PipelineStop
  ELSE IF ~opts0.Config.isNil /\ opts0.Config.DisableDefaultCNI
       THEN PipelineNoCNI(opts0.WaitForReady)
       ELSE PipelineFull(opts0.WaitForReady)
Script ==
  (IF opts0.Config.isNil THEN <<Step("Load", "")>> ELSE <<>>)
  \o <<Step("Validate", ""), Step("Provision", "")>>
  \o [j \in 1..Len(ScriptActions) |-> Step("Execute", ScriptActions[j][1])]
  \o (IF opts0.StopBeforeSettingUpKubernetes THEN <<>>
      ELSE <<Step("Export", opts0.KubeconfigPath)>>)
\* the calls other than the deletion
Main == SelectSeq(calls, LAMBDA c : c.fn # "Delete")
\* the result the calls m determine
OutcomeOf(m) ==
  IF m # <<>> /\ m[Len(m)].res # Nil THEN m[Len(m)].res
  ELSE IF ~IsValidName(name) THEN ErrInvalidName
  ELSE Nil
\* calls (m without the deletion) and result are those the script sc, the
\* results of the calls and Retain determine
FollowsScriptOf(m, sc) ==
  LET failed == m # <<>> /\ m[Len(m)].res # Nil
      deletes == Len(calls) - Len(m)
  IN /\ Len(m) <= Len(sc)
     /\ \A i \in 1..Len(m) : m[i].fn = sc[i].fn /\ m[i].arg = sc[i].arg
     /\ \A i \in 1..(Len(m) - 1) : m[i].res = Nil
     /\ ~IsValidName(name) => Len(m) <= (IF opts0.Config.isNil THEN 1 ELSE 0)
     /\ deletes =
          (IF failed /\ m[Len(m)].fn \in {"Provision", "Execute"} /\ ~opts0.Retain
           THEN 1 ELSE 0)
     /\ deletes = 1 =>
          /\ calls[Len(calls)].fn = "Delete"
          /\ calls[Len(calls)].arg = opts0.KubeconfigPath
     /\ failed => Returned
     /\ Returned =>
          /\ ret = OutcomeOf(m)
          /\ ret = Nil => Len(m) = Len(sc)
FollowsScript == FollowsScriptOf(Main, Script)

WarnCount == Len(SelectSeq(logs, LAMBDA l : l.kind = "Warnf"))
NameChecked == pc \notin {"fixupOptions", "validateName"} /\ ret # ErrLoad

\* C11: once a valid name has been checked, exactly one long-name warning
\* has been logged if the name is longer than 50 characters and none
\* otherwise (none at 50, one at 51); the warning is followed by the
\* validation of the configuration, and the calls made and the result
\* returned are those the other inputs and the results of the calls
\* determine, with or without the warning.
C11_LongNameWarning ==
  /\ NameChecked /\ IsValidName(name) =>
       /\ WarnCount = (IF Len(name) > 50 THEN 1 ELSE 0)
       /\ pc = "validateConfig" \/ Count("Validate") = 1
  /\ ~(NameChecked /\ IsValidName(name)) => WarnCount = 0
  /\ FollowsScript

C11_Witness ==
  /\ Returned
  /\ Len(name) = 51
  /\ WarnCount = 1
  /\ ret = Nil
  /\ Count("Export") = 1

\* fixupOptions has returned nil
FixedUp == pc # "fixupOptions" /\ ret # ErrLoad

\* C12: after fixupOptions, for any configuration, passed or loaded, and any
\* non-empty NodeImage, every node of the configuration has NodeImage as its
\* image, before Validate, Provision or any action reads it.
C12_ImageOverride ==
  FixedUp /\ opts.NodeImage # "" =>
    \A i \in 1..Len(opts.Config.Nodes) : opts.Config.Nodes[i].Image = opts.NodeImage

\* C13: fixupOptions is idempotent: applied again to the options it
\* returned nil for, it returns nil and leaves them as they are.
C13_Idempotent ==
  FixedUp =>
    \A e \in {Nil, ErrLoad} : fixupOptions(opts, e) = [opts |-> opts, err |-> Nil]

\* the positions in calls of the calls to f
IndexOf(f) == {i \in 1..Len(calls) : calls[i].fn = f}

\* C14: no action is executed before Provision has returned nil; the
\* actions executed are the first ones of the pipeline, in its order, each
\* once, each after the one before it returned nil, all with the one action
\* context; loadbalancer and config have returned nil before kubeadminit is
\* executed.
C14_InOrder ==
  LET ex == CallsTo("Execute")
  IN /\ Len(ex) <= Len(ScriptActions)
     /\ \A j \in 1..Len(ex) : ex[j].arg = ScriptActions[j][1] /\ ex[j].ctx = 1
     /\ \A i, j \in 1..Len(ex) : i # j => ex[i].arg # ex[j].arg
     /\ \A j \in 1..(Len(ex) - 1) : ex[j].res = Nil
     /\ actionsContext <= 1
     /\ \A j \in IndexOf("Execute") :
          \E i \in IndexOf("Provision") : i < j /\ calls[i].res = Nil
     /\ \A j \in 1..Len(ex) :
          ex[j].arg = "kubeadminit" =>
            /\ j = 3
            /\ ex[1].arg = "loadbalancer" /\ ex[1].res = Nil
            /\ ex[2].arg = "config" /\ ex[2].res = Nil

C14_Witness ==
  /\ Returned
  /\ ret = Nil
  /\ Count("Execute") = 7
  /\ CallsTo("Execute")[4].arg = "installcni"

ExportSucceeded ==
  \E i \in 1..Len(calls) : calls[i].fn = "Export" /\ calls[i].res = Nil

\* C15: the calls made and the result returned are those that the inputs
\* other than DisplayUsage and DisplaySalutation, and the results of the
\* calls, determine, whatever the display flags and the salutation drawn;
\* usage is logged only after a successful export and only with
\* DisplayUsage, a salutation only after a successful export and only with
\* DisplaySalutation, and it is one of the fixed salutations.
C15_CosmeticOutput ==
  /\ FollowsScript
  /\ Logged("Usage") => opts0.DisplayUsage /\ ExportSucceeded /\ Returned
  /\ Logged("Salutation") \/ Logged("Info") =>
       opts0.DisplaySalutation /\ ExportSucceeded /\ Returned
  /\ \A i \in 1..Len(logs) :
       logs[i].kind = "Salutation" => logs[i].n \in 1..4
  /\ Returned /\ ExportSucceeded =>
       /\ ret = Nil
       /\ Logged("Usage") <=> opts0.DisplayUsage
       /\ Logged("Salutation") <=> opts0.DisplaySalutation

C15_Witness ==
  /\ Returned
  /\ ret = Nil
  /\ ~opts0.DisplayUsage
  /\ opts0.DisplaySalutation
  /\ ~Logged("Usage")
  /\ \E i \in 1..Len(logs) : logs[i].kind = "Salutation" /\ logs[i].n = 3
  /\ Count("Export") = 1

\* C16: once fixupOptions has returned, no step of Cluster changes the
\* options (Config, NodeImage, Retain, WaitForReady, KubeconfigPath, the stop
\* flag, the display flags), and once the loop has started no step changes
\* actionsToRun.
C16_Frame ==
  [][/\ pc # "fixupOptions" => opts' = opts
     /\ pc \in {"run", "report", "done"} => actions' = actions]_vars

C16_Witness ==
  /\ Returned
  /\ ret = Nil
  /\ opts # opts0
  /\ actions = PipelineFull(30)
  /\ Count("Execute") = 7
  /\ Logged("Usage")

\* the phases of Cluster in the order of the code, and the steps between them
Rank(p) ==
  CASE p = "fixupOptions" -> 1
    [] p = "validateName" -> 2
    [] p = "validateConfig" -> 3
    [] p = "provision" -> 4
    [] p = "assemble" -> 5
    [] p = "run" -> 6
    [] p = "report" -> 7
    [] p = "done" -> 8
Transitions ==
  {<<"fixupOptions", "validateName">>, <<"validateName", "validateConfig">>,
   <<"validateConfig", "provision">>, <<"provision", "assemble">>,
   <<"assemble", "run">>, <<"run", "run">>, <<"run", "report">>,
   <<"report", "done">>}
  \cup {<<p, "done">> : p \in {"fixupOptions", "validateName", "validateConfig",
                               "provision", "run"}}
ReturnValues ==
  {Nil, ErrLoad, ErrInvalidName, ErrValidate, ErrProvision, ErrExport}
  \cup {ErrExecute(i) : i \in 1..7}

Succeeded(f) == \E i \in 1..Len(calls) : calls[i].fn = f /\ calls[i].res = Nil
ExecutedOk == Len(SelectSeq(calls, LAMBDA c : c.fn = "Execute" /\ c.res = Nil))

\* C18: Cluster returns nil exactly when fixupOptions returned nil, the name
\* is valid, Validate and Provision returned nil, every action of the
\* pipeline returned nil, and StopBeforeSettingUpKubernetes is set or the
\* export returned nil; when it returns nil, delete.Cluster was never called.
C18_Success ==
  Returned =>
    /\ ret = Nil <=>
         /\ ~Failed("Load")
         /\ IsValidName(name)
         /\ Succeeded("Validate")
         /\ Succeeded("Provision")
         /\ ExecutedOk = Len(ScriptActions)
         /\ opts0.StopBeforeSettingUpKubernetes \/ Succeeded("Export")
    /\ ret = Nil => Count("Delete") = 0 /\ infra = "provisioned"

C18_Witness ==
  /\ Returned
  /\ ret = Nil
  /\ opts0.StopBeforeSettingUpKubernetes
  /\ ~opts0.Retain
  /\ opts0.Config.isNil
  /\ ExecutedOk = 2
  /\ Count("Export") = 0

====
